---- MODULE Spec2Model ----
(***************************************************************************)
(* TalonStrike: the AI session manager of src/modules/startai.py           *)
(* (TelegramAIBot with its AISession objects): the per-user session store, *)
(* the per-user cooldown record, and the three handlers start_ai, stop_ai  *)
(* and ai_message_handler, each taken as one step (the transport delivers  *)
(* the updates of a chat one after the other).                             *)
(*                                                                         *)
(* Time is the event loop's monotonic clock, in whole seconds.  The clock  *)
(* is read at the readings of ClockReadings: the multiples of the session  *)
(* timeout (which include the multiples of the cooldown) and the second    *)
(* after each, so that an age of 1800 s and of 1801 s, and a cooldown of   *)
(* 3599 s and of 3600 s, are all read.                                     *)
(*                                                                         *)
(* More parts of the program, each with a specification of its own:        *)
(* _generate_ai_response and _reply_safely of startai.py taken one await   *)
(* at a time (TurnSpec), split_long_message of whoislookup.py (SplitSpec), *)
(* the command handlers whoislookup, dnslookup and reversedns of           *)
(* whoislookup.py and dnslookup.py (LookupSpec), the reply text made of a  *)
(* completion (CompletionSpec), the parts of analyzeheader's report        *)
(* (PartsSpec), analyze_authentication of analyzeheader.py (AuthSpec), and *)
(* the session manager with its handlers interleaved at their awaits       *)
(* (InterleavedSpec).                                                      *)
(***************************************************************************)
EXTENDS Integers, Sequences, FiniteSets, TLC

\* ------------------------------------------------------------- constants
max_messages == 5
session_timeout == 1800
user_cooldown == 3600
max_retries == 3
max_text_length == 2000
seconds_per_minute == 60
\* split_long_message's default max_length
max_length == 4000
\* the {0,61} of the domain patterns, and is_valid_domain's length limit
max_label_inner == 61
max_domain_length == 253
\* inet_aton takes up to four numbers
max_ip_parts == 4

\* _generate_ai_response: the longest reply left as it is, the characters
\* kept of a longer one, and len("... (truncated)")
max_reply_length == 4000
truncated_length == 3900
marker_length == 15

\* analyzeheader: the lengths of the report's three heading lines (the
\* title, "Analyzed n header fields" for a count of one digit, the rule of
\* "="), its max_length, and len("...")
title_length == 37
analyzed_length == 31
rule_length == 40
report_max_length == 4000
ellipsis_length == 3

\* ---------------------------------------------------------------- bounds
\* The last clock reading of a run.
MaxTime == 7201
\* The length of a document's ordinary lines, and its lines at most.
ShortLine == 1500
MaxLines == 4
\* The characters typed after a target's scheme and www. at most.
MaxTargetLen == 2
\* The messages a report is sent in at most.
MaxParts == 2

\* How far the lengths of the completions lie around the two cuts.
MaxExcess == 10

\* The words of a Received-SPF header after its result keyword.
MaxWords == 2

\* ---------------------------------------------------------------- inputs
\* Every update handled here has a sender, a message and a non-empty text
\* (the dispatcher's CommandHandler and filters.TEXT & ~filters.COMMAND): the
\* handlers' guards for an update without them return before they read or
\* write any state.
Users == {"u1", "u2"}
\* last_user when no handler ran last.
NoUser == "nobody"

ClockReadings ==
  {t \in 0..MaxTime : t % session_timeout \in {0, 1}}

\* A text update: `pad` whitespace characters around a body of `body`
\* characters that starts and ends with a non-blank: a blank message, a
\* message of 2000 characters once stripped, and one of 2001 characters.
Texts ==
  {[pad |-> 1, body |-> 0], [pad |-> 1, body |-> max_text_length],
   [pad |-> 0, body |-> max_text_length + 1]}

\* What a failed attempt of the completion call raises: OpenAIError, or
\* anything else (an empty response included).
Failures == {"OpenAIError", "Exception"}
\* What the attempts of one turn end in, in order, up to the first success:
\* fewer than max_retries failures and then a success, or max_retries failures.
OutcomeRuns ==
  UNION {{Append(f, "ok") : f \in [1..n -> Failures]} : n \in 0..(max_retries - 1)}
    \cup [1..max_retries -> Failures]

VARIABLES
  now,                \* the monotonic clock
  ai_sessions,        \* self.ai_sessions: user -> AISession
  user_last_ai_time,  \* self.user_last_ai_time: user -> time of last start
  last_op,            \* the handler that ran last ("tick": the clock moved)
  last_user,          \* whose update it handled
  replies,            \* the replies that handler sent, in order
  wait_minutes,       \* the wait estimate of its cooldown reply (else 0)
  calls,              \* the completion attempts that handler made
  appended,           \* len(session.messages) after that handler's append
                      \* (0: it appended nothing)
  swept,              \* the sessions that handler cleaned up: the expired
                      \* ones of a turn, the existing one of a start
  started_at,         \* history: user -> the times of the starts answered
                      \* "started", in order
  exhausted,          \* history: the users whose latest session ended at
                      \* the message ceiling
  \* _generate_ai_response, one await at a time
  turn_pc,            \* where the handling of the turn stands
  attempt_no,         \* the loop's `attempt`
  outcomes,           \* what the completion attempts made so far ended in
  slept,              \* the sleeps taken so far, in seconds
  sends,              \* the reply_text calls made so far, with their outcome
  stored,             \* whether the turn's session is in ai_sessions
  escaped,            \* the exception that left _reply_safely ("none")
  \* split_long_message
  document,           \* the message handed to split_long_message
  pieces,             \* the chunks it returned (<<>>: not called yet)
  \* whoislookup, dnslookup, reversedns
  request,            \* the command update being handled
  results,            \* lookup -> how it ended, for the lookups issued
  outbox,             \* the transport calls the handler made, in order
  report,             \* the sections of the report it formatted
  raised,             \* the exception that left the handler ("none")
  \* the reply text of a completion
  completion,         \* the content of the completion response
  ai_reply,           \* what _generate_ai_response makes of it: nothing
                      \* yet, an Exception raised, or the text it sends
  \* analyze_authentication
  headers,            \* the parsed headers: field -> the words of its value
  auth_results,       \* what analyze_authentication returned (state "none":
                      \* not called yet)
  \* the handlers of one user interleaved at their awaits
  in_flight,          \* user -> where the user's turn waits in
                      \* _generate_ai_response (pc "none": no turn waits)
  key_errors          \* the handlers that raised KeyError at a del

bot_vars == <<now, ai_sessions, user_last_ai_time, last_op, last_user, replies,
              wait_minutes, calls, appended, swept, started_at, exhausted>>
turn_vars == <<turn_pc, attempt_no, outcomes, slept, sends, stored, escaped>>
split_vars == <<document, pieces>>
lookup_vars == <<request, results, outbox, report, raised>>

reply_vars == <<completion, ai_reply>>
auth_vars == <<headers, auth_results>>
race_vars == <<in_flight, key_errors>>
vars == <<bot_vars, turn_vars, split_vars, lookup_vars, reply_vars, auth_vars, race_vars>>

\* Each specification below runs one part of the program; the other parts
\* rest in these states.
TurnIdle ==
  /\ turn_pc = "idle"
  /\ attempt_no = 0
  /\ outcomes = <<>>
  /\ slept = <<>>
  /\ sends = <<>>
  /\ stored = FALSE
  /\ escaped = "none"

SplitIdle ==
  /\ document = <<>>
  /\ pieces = <<>>

LookupIdle ==
  /\ request = [command |-> "none", args |-> <<>>]
  /\ results = [x \in {} |-> 0]
  /\ outbox = <<>>
  /\ report = <<>>
  /\ raised = "none"

CompletionIdle ==
  /\ completion = [pad |-> 0, body |-> 0]
  /\ ai_reply = [state |-> "none", from |-> 0, len |-> 0, marker |-> FALSE]

AuthIdle ==
  /\ headers = [x \in {} |-> 0]
  /\ auth_results = [state |-> "none", found |-> [x \in {} |-> 0]]

InterleavedIdle ==
  /\ in_flight = [u \in Users |-> [pc |-> "none", attempt |-> 0, session |-> 0]]
  /\ key_errors = {}

\* ------------------------------------------------------------ dictionaries
Has(d, k) == k \in DOMAIN d
Put(d, k, v) == [x \in DOMAIN d \cup {k} |-> IF x = k THEN v ELSE d[x]]
Del(d, k) == [x \in DOMAIN d \ {k} |-> d[x]]
Get(d, k, default) == IF Has(d, k) THEN d[k] ELSE default
EmptyDict == [x \in {} |-> 0]

\* ---------------------------------------------------------------- AISession
\* AISession.__init__: an empty message list, created_at read from the clock.
NewSession(u, t) == [user_id |-> u, messages |-> <<>>, created_at |-> t]

\* AISession.add_message: the session after the append.
add_message(session, body) ==
  [session EXCEPT !.messages = Append(@, body)]

\* Mutant: the ceiling test off by one.
should_continue_late(session) == Len(session.messages) <= max_messages

\* AISession.add_message's result: whether the session should continue.
should_continue(session) == Len(session.messages) < max_messages

\* Mutant: expiry one second late.
is_expired_late(session, current_time, timeout_seconds) ==
  (current_time - session.created_at) > timeout_seconds + 1

\* Mutant: expiry at the timeout itself.
is_expired_early(session, current_time, timeout_seconds) ==
  (current_time - session.created_at) >= timeout_seconds

\* AISession.is_expired
is_expired(session, current_time, timeout_seconds) ==
  (current_time - session.created_at) > timeout_seconds

\* str.strip() followed by len(): the length of the body.
StrippedLen(text) == text.body

\* ----------------------------------------------------------- TelegramAIBot
\* Mutant: the cleanup removes nothing.
cleanup_skipped(sessions, current_time) == sessions

\* cleanup_expired_sessions: the store without its expired sessions.
cleanup_expired_sessions(sessions, current_time) ==
  [u \in {x \in DOMAIN sessions :
            ~is_expired(sessions[x], current_time, session_timeout)}
     |-> sessions[u]]

\* Mutant: the cooldown test against the session timeout.
CooldownActive_short(current_time, last_time) ==
  current_time - last_time < session_timeout

\* start_ai's cooldown test, last_time being user_last_ai_time.get(user, 0).
CooldownActive(current_time, last_time) ==
  current_time - last_time < user_cooldown

\* start_ai's wait estimate: int((cooldown - elapsed) // 60) + 1.
WaitMinutes(current_time, last_time) ==
  ((user_cooldown - (current_time - last_time)) \div seconds_per_minute) + 1

Init ==
  /\ now \in {t \in ClockReadings : t <= user_cooldown}
  /\ ai_sessions = EmptyDict
  /\ user_last_ai_time = EmptyDict
  /\ last_op = "init"
  /\ last_user = NoUser
  /\ replies = <<>>
  /\ wait_minutes = 0
  /\ calls = 0
  /\ appended = 0
  /\ swept = EmptyDict
  /\ started_at = [u \in Users |-> <<>>]
  /\ exhausted = {}
  /\ TurnIdle /\ SplitIdle /\ LookupIdle /\ CompletionIdle /\ AuthIdle /\ InterleavedIdle

\* The clock moves on between two updates.
Tick ==
  /\ \E t \in ClockReadings : t > now /\ now' = t
  /\ last_op' = "tick"
  /\ last_user' = NoUser
  /\ replies' = <<>>
  /\ wait_minutes' = 0
  /\ calls' = 0
  /\ appended' = 0
  /\ swept' = EmptyDict
  /\ UNCHANGED <<ai_sessions, user_last_ai_time, started_at, exhausted>>
  /\ UNCHANGED <<turn_vars, split_vars, lookup_vars, reply_vars, auth_vars, race_vars>>

\* Mutant: /startai keeps the session the user already has.
start_ai_keeps(u) ==
  /\ UNCHANGED <<turn_vars, split_vars, lookup_vars, reply_vars, auth_vars, race_vars>>
  /\ last_op' = "start"
  /\ last_user' = u
  /\ calls' = 0
  /\ appended' = 0
  /\ LET last_time == Get(user_last_ai_time, u, 0) IN
     IF CooldownActive(now, last_time)
     THEN /\ replies' = <<"cooldown">>
          /\ wait_minutes' = WaitMinutes(now, last_time)
          /\ swept' = EmptyDict
          /\ UNCHANGED <<now, ai_sessions, user_last_ai_time, started_at,
                         exhausted>>
     ELSE /\ \E t \in ClockReadings :
               /\ now <= t /\ t <= now + 1
               /\ now' = t
               /\ ai_sessions' = IF Has(ai_sessions, u) THEN ai_sessions
                                 ELSE Put(ai_sessions, u, NewSession(u, t))
          /\ swept' = [x \in DOMAIN ai_sessions \cap {u} |-> ai_sessions[x]]
          /\ user_last_ai_time' = Put(user_last_ai_time, u, now)
          /\ replies' = <<"started">>
          /\ wait_minutes' = 0
          /\ started_at' = [started_at EXCEPT ![u] = Append(@, now)]
          /\ exhausted' = exhausted \ {u}

\* /startai.  The cooldown is tested against the handler's clock reading;
\* AISession() then reads the clock again for created_at.
start_ai(u) ==
  /\ UNCHANGED <<turn_vars, split_vars, lookup_vars, reply_vars, auth_vars, race_vars>>
  /\ last_op' = "start"
  /\ last_user' = u
  /\ calls' = 0
  /\ appended' = 0
  /\ LET last_time == Get(user_last_ai_time, u, 0) IN
     IF CooldownActive(now, last_time)
     THEN /\ replies' = <<"cooldown">>
          /\ wait_minutes' = WaitMinutes(now, last_time)
          /\ swept' = EmptyDict
          /\ UNCHANGED <<now, ai_sessions, user_last_ai_time, started_at,
                         exhausted>>
     ELSE /\ \E t \in ClockReadings :
               /\ now <= t /\ t <= now + 1
               /\ now' = t
               /\ ai_sessions' = Put(Del(ai_sessions, u), u, NewSession(u, t))
          /\ swept' = [x \in DOMAIN ai_sessions \cap {u} |-> ai_sessions[x]]
          /\ user_last_ai_time' = Put(user_last_ai_time, u, now)
          /\ replies' = <<"started">>
          /\ wait_minutes' = 0
          /\ started_at' = [started_at EXCEPT ![u] = Append(@, now)]
          /\ exhausted' = exhausted \ {u}

\* Mutant: /stopai also forgets the user's cooldown record.
stop_ai_resets(u) ==
  /\ UNCHANGED <<turn_vars, split_vars, lookup_vars, reply_vars, auth_vars, race_vars>>
  /\ last_op' = "stop"
  /\ last_user' = u
  /\ calls' = 0
  /\ appended' = 0
  /\ swept' = EmptyDict
  /\ wait_minutes' = 0
  /\ IF Has(ai_sessions, u)
     THEN /\ ai_sessions' = Del(ai_sessions, u)
          /\ replies' = <<"stopped">>
     ELSE /\ replies' = <<"no_session">>
          /\ UNCHANGED ai_sessions
  /\ user_last_ai_time' = Del(user_last_ai_time, u)
  /\ UNCHANGED <<now, started_at, exhausted>>

\* Mutant: /stopai empties the whole session store.
stop_ai_all(u) ==
  /\ UNCHANGED <<turn_vars, split_vars, lookup_vars, reply_vars, auth_vars, race_vars>>
  /\ last_op' = "stop"
  /\ last_user' = u
  /\ calls' = 0
  /\ appended' = 0
  /\ swept' = EmptyDict
  /\ wait_minutes' = 0
  /\ IF Has(ai_sessions, u)
     THEN /\ ai_sessions' = EmptyDict
          /\ replies' = <<"stopped">>
     ELSE /\ replies' = <<"no_session">>
          /\ UNCHANGED ai_sessions
  /\ UNCHANGED <<now, user_last_ai_time, started_at, exhausted>>

\* /stopai
stop_ai(u) ==
  /\ UNCHANGED <<turn_vars, split_vars, lookup_vars, reply_vars, auth_vars, race_vars>>
  /\ last_op' = "stop"
  /\ last_user' = u
  /\ calls' = 0
  /\ appended' = 0
  /\ swept' = EmptyDict
  /\ wait_minutes' = 0
  /\ IF Has(ai_sessions, u)
     THEN /\ ai_sessions' = Del(ai_sessions, u)
          /\ replies' = <<"stopped">>
     ELSE /\ replies' = <<"no_session">>
          /\ UNCHANGED ai_sessions
  /\ UNCHANGED <<now, user_last_ai_time, started_at, exhausted>>

\* 2 ** n
RECURSIVE Pow2(_)
Pow2(n) == IF n = 0 THEN 1 ELSE 2 * Pow2(n - 1)

\* Mutant: only a final API-classified failure tears the session down.
RECURSIVE generate_ai_response_keeps(_, _)
generate_ai_response_keeps(outs, attempt) ==
  IF attempt >= max_retries
  THEN [replies |-> <<>>, calls |-> 0, slept |-> <<>>, teardown |-> FALSE]
  ELSE IF outs[attempt + 1] = "ok"
  THEN [replies |-> <<"ai">>, calls |-> 1, slept |-> <<>>, teardown |-> FALSE]
  ELSE IF attempt = max_retries - 1
  THEN [replies |-> <<IF outs[attempt + 1] = "OpenAIError"
                      THEN "unavailable" ELSE "generation_error">>,
        calls |-> 1, slept |-> <<>>,
        teardown |-> (outs[attempt + 1] = "OpenAIError")]
  ELSE LET rest == generate_ai_response_keeps(outs, attempt + 1)
           delay == IF outs[attempt + 1] = "OpenAIError"
                    THEN Pow2(attempt) ELSE 1
       IN  [rest EXCEPT !.calls = @ + 1, !.slept = <<delay>> \o @]

\* _generate_ai_response's retry loop from attempt number `attempt` on,
\* outs[k + 1] being what attempt k ends in: the replies sent, the completion
\* attempts made, the sleeps taken and whether the session is torn down.
RECURSIVE generate_ai_response(_, _)
generate_ai_response(outs, attempt) ==
  IF attempt >= max_retries
  THEN [replies |-> <<>>, calls |-> 0, slept |-> <<>>, teardown |-> FALSE]
  ELSE IF outs[attempt + 1] = "ok"
  THEN [replies |-> <<"ai">>, calls |-> 1, slept |-> <<>>, teardown |-> FALSE]
  ELSE IF attempt = max_retries - 1
  THEN [replies |-> <<IF outs[attempt + 1] = "OpenAIError"
                      THEN "unavailable" ELSE "generation_error">>,
        calls |-> 1, slept |-> <<>>, teardown |-> TRUE]
  ELSE LET rest == generate_ai_response(outs, attempt + 1)
           delay == IF outs[attempt + 1] = "OpenAIError"
                    THEN Pow2(attempt) ELSE 1
       IN  [rest EXCEPT !.calls = @ + 1, !.slept = <<delay>> \o @]

\* Mutant: the length test off by one.
Validate_lenient(text) ==
  IF StrippedLen(text) = 0 THEN "empty"
  ELSE IF StrippedLen(text) > max_text_length + 1 THEN "too_long"
  ELSE "ok"

\* ai_message_handler's validation of the stripped text.
Validate(text) ==
  IF StrippedLen(text) = 0 THEN "empty"
  ELSE IF StrippedLen(text) > max_text_length THEN "too_long"
  ELSE "ok"

\* The sessions of `sessions` that `live` no longer holds.
Removed(sessions, live) ==
  [u \in DOMAIN sessions \ DOMAIN live |-> sessions[u]]

\* Mutant: a text message of a user without a session is answered like
\* /stopai, with the "no active session" notice.
ai_message_handler_answers(u, text) ==
  /\ UNCHANGED <<turn_vars, split_vars, lookup_vars, reply_vars, auth_vars, race_vars>>
  /\ last_op' = "turn"
  /\ last_user' = u
  /\ wait_minutes' = 0
  /\ UNCHANGED <<now, user_last_ai_time, started_at>>
  /\ LET live == cleanup_expired_sessions(ai_sessions, now) IN
     /\ swept' = Removed(ai_sessions, live)
     /\ IF ~Has(live, u)
        THEN /\ ai_sessions' = live
             /\ replies' = <<"no_session">>
             /\ calls' = 0
             /\ appended' = 0
             /\ UNCHANGED exhausted
        ELSE IF Validate(text) # "ok"
        THEN /\ ai_sessions' = live
             /\ replies' = <<Validate(text)>>
             /\ calls' = 0
             /\ appended' = 0
             /\ UNCHANGED exhausted
        ELSE LET session == add_message(live[u], StrippedLen(text)) IN
             /\ appended' = Len(session.messages)
             /\ IF ~should_continue(session)
                THEN /\ ai_sessions' = Del(live, u)
                     /\ replies' = <<"limit">>
                     /\ calls' = 0
                     /\ exhausted' = exhausted \cup {u}
                ELSE \E outs \in OutcomeRuns :
                     LET r == generate_ai_response(outs, 0) IN
                     /\ ai_sessions' = IF r.teardown
                                       THEN Del(live, u)
                                       ELSE Put(live, u, session)
                     /\ replies' = r.replies
                     /\ calls' = r.calls
                     /\ UNCHANGED exhausted

\* A text message that is no command.
ai_message_handler(u, text) ==
  /\ UNCHANGED <<turn_vars, split_vars, lookup_vars, reply_vars, auth_vars, race_vars>>
  /\ last_op' = "turn"
  /\ last_user' = u
  /\ wait_minutes' = 0
  /\ UNCHANGED <<now, user_last_ai_time, started_at>>
  /\ LET live == cleanup_expired_sessions(ai_sessions, now) IN
     /\ swept' = Removed(ai_sessions, live)
     /\ IF ~Has(live, u)
        THEN /\ ai_sessions' = live
             /\ replies' = <<>>
             /\ calls' = 0
             /\ appended' = 0
             /\ UNCHANGED exhausted
        ELSE IF Validate(text) # "ok"
        THEN /\ ai_sessions' = live
             /\ replies' = <<Validate(text)>>
             /\ calls' = 0
             /\ appended' = 0
             /\ UNCHANGED exhausted
        ELSE LET session == add_message(live[u], StrippedLen(text)) IN
             /\ appended' = Len(session.messages)
             /\ IF ~should_continue(session)
                THEN /\ ai_sessions' = Del(live, u)
                     /\ replies' = <<"limit">>
                     /\ calls' = 0
                     /\ exhausted' = exhausted \cup {u}
                ELSE \E outs \in OutcomeRuns :
                     LET r == generate_ai_response(outs, 0) IN
                     /\ ai_sessions' = IF r.teardown
                                       THEN Del(live, u)
                                       ELSE Put(live, u, session)
                     /\ replies' = r.replies
                     /\ calls' = r.calls
                     /\ UNCHANGED exhausted

Next ==
  \/ Tick
  \/ \E u \in Users : start_ai(u)
  \/ \E u \in Users : stop_ai(u)
  \/ \E u \in Users, text \in Texts : ai_message_handler(u, text)

Spec == Init /\ [][Next]_vars

\* The session manager at rest, while another part of the program runs.
BotIdle ==
  /\ now = 0
  /\ ai_sessions = EmptyDict
  /\ user_last_ai_time = EmptyDict
  /\ last_op = "init"
  /\ last_user = NoUser
  /\ replies = <<>>
  /\ wait_minutes = 0
  /\ calls = 0
  /\ appended = 0
  /\ swept = EmptyDict
  /\ started_at = [u \in Users |-> <<>>]
  /\ exhausted = {}

\* ------------------------------------ _generate_ai_response, await by await
\* The handling of one accepted turn of a stored session, from the typing
\* indicator on, one step per await: the completion call, the sleep before
\* the next attempt, the reply through _reply_safely and its second send.

\* What a reply_text call ends in: delivered, or one of the transport's
\* exceptions (TimedOut is a NetworkError, NetworkError a TelegramError), or
\* any other exception.
TransportOutcomes ==
  {"ok", "NetworkError", "TimedOut", "TelegramError", "Exception"}

\* The classes an exception is an instance of.
Bases(exc) ==
  CASE exc = "TimedOut" ->
         {"TimedOut", "NetworkError", "TelegramError", "Exception"}
    [] exc = "NetworkError" -> {"NetworkError", "TelegramError", "Exception"}
    [] exc = "TelegramError" -> {"TelegramError", "Exception"}
    [] exc = "OpenAIError" -> {"OpenAIError", "Exception"}
    [] OTHER -> {"Exception"}

\* Mutant: the first clause matches the class NetworkError itself only.
reply_except_exact(exc) ==
  IF exc = "NetworkError" THEN "resend"
  ELSE IF "TelegramError" \in Bases(exc) THEN "logged"
  ELSE IF "Exception" \in Bases(exc) THEN "logged"
  ELSE "raise"

\* _reply_safely's except clauses, in order: what the helper does with an
\* exception of the first reply_text.
reply_except(exc) ==
  IF Bases(exc) \cap {"NetworkError", "TimedOut"} # {} THEN "resend"
  ELSE IF "TelegramError" \in Bases(exc) THEN "logged"
  ELSE IF "Exception" \in Bases(exc) THEN "logged"
  ELSE "raise"

\* Mutant: every failed attempt is followed by the flat delay.
retry_delay_flat(exc, attempt) == 1

\* The sleep after the failed attempt number `attempt` that is not the last:
\* 2 ** attempt in the OpenAIError clause, 1 in the Exception clause.
retry_delay(exc, attempt) ==
  IF "OpenAIError" \in Bases(exc) THEN Pow2(attempt) ELSE 1

\* What the latest attempt ended in.
LastOutcome == outcomes[Len(outcomes)]

\* The reply_text call _reply_safely makes first: the text and keyword
\* arguments the loop handed to it.
FirstSend ==
  IF LastOutcome = "ok" THEN [text |-> "ai", parse_mode |-> "HTML"]
  ELSE IF "OpenAIError" \in Bases(LastOutcome)
  THEN [text |-> "unavailable", parse_mode |-> "none"]
  ELSE [text |-> "generation_error", parse_mode |-> "none"]

\* The reply_text call of _reply_safely's NetworkError/TimedOut clause.
SecondSend == [text |-> "unable_to_send", parse_mode |-> "none"]

Sent(call, tr) ==
  [text |-> call.text, parse_mode |-> call.parse_mode, outcome |-> tr]

\* After _reply_safely has returned: `return` after a success; after the
\* last failure the session is deleted and the loop is over.
StoredAfterReply == IF LastOutcome = "ok" THEN stored ELSE FALSE

TurnInit ==
  /\ turn_pc = "typing"
  /\ attempt_no = 0
  /\ outcomes = <<>>
  /\ slept = <<>>
  /\ sends = <<>>
  /\ stored = TRUE
  /\ escaped = "none"

\* send_action("typing"): whatever it raises is passed over.
Typing ==
  /\ turn_pc = "typing"
  /\ \E tr \in TransportOutcomes : turn_pc' = "call"
  /\ UNCHANGED <<attempt_no, outcomes, slept, sends, stored, escaped>>
  /\ UNCHANGED <<bot_vars, split_vars, lookup_vars, reply_vars, auth_vars, race_vars>>

\* One pass of the loop body up to its next await: the completion call
\* returns a usable response or raises.
Attempt ==
  /\ turn_pc = "call"
  /\ attempt_no < max_retries
  /\ \E o \in {"ok"} \cup Failures :
       /\ outcomes' = Append(outcomes, o)
       /\ turn_pc' = IF o = "ok" \/ attempt_no = max_retries - 1
                     THEN "send" ELSE "sleep"
  /\ UNCHANGED <<attempt_no, slept, sends, stored, escaped>>
  /\ UNCHANGED <<bot_vars, split_vars, lookup_vars, reply_vars, auth_vars, race_vars>>

\* asyncio.sleep after a failed attempt that is not the last, then the next
\* value of the loop's range.
Backoff ==
  /\ turn_pc = "sleep"
  /\ slept' = Append(slept, retry_delay(LastOutcome, attempt_no))
  /\ attempt_no' = attempt_no + 1
  /\ turn_pc' = "call"
  /\ UNCHANGED <<outcomes, sends, stored, escaped>>
  /\ UNCHANGED <<bot_vars, split_vars, lookup_vars, reply_vars, auth_vars, race_vars>>

\* _reply_safely's first reply_text.
Reply ==
  /\ turn_pc = "send"
  /\ \E tr \in TransportOutcomes :
       LET clause == IF tr = "ok" THEN "returned" ELSE reply_except(tr) IN
       /\ sends' = Append(sends, Sent(FirstSend, tr))
       /\ turn_pc' = IF clause = "resend" THEN "resend" ELSE "done"
       /\ escaped' = IF clause = "raise" THEN tr ELSE escaped
       /\ stored' = IF clause \in {"returned", "logged"}
                    THEN StoredAfterReply ELSE stored
  /\ UNCHANGED <<attempt_no, outcomes, slept>>
  /\ UNCHANGED <<bot_vars, split_vars, lookup_vars, reply_vars, auth_vars, race_vars>>

\* _reply_safely's second reply_text, under a bare except.
Resend ==
  /\ turn_pc = "resend"
  /\ \E tr \in TransportOutcomes :
       sends' = Append(sends, Sent(SecondSend, tr))
  /\ turn_pc' = "done"
  /\ stored' = StoredAfterReply
  /\ UNCHANGED <<attempt_no, outcomes, slept, escaped>>
  /\ UNCHANGED <<bot_vars, split_vars, lookup_vars, reply_vars, auth_vars, race_vars>>

TurnNext == Typing \/ Attempt \/ Backoff \/ Reply \/ Resend

\* One accepted turn is handled; the rest of the program is at rest.
TurnStart == BotIdle /\ TurnInit /\ SplitIdle /\ LookupIdle /\ CompletionIdle /\ AuthIdle /\ InterleavedIdle

TurnSpec == TurnStart /\ [][TurnNext]_vars

\* The event loop resumes every coroutine whose await has completed.
TurnFairSpec == TurnSpec /\ WF_vars(TurnNext)

\* ------------------------------------------------------ split_long_message
\* A string is held as the sequence of its lines (what str.split('\n')
\* returns and '\n'.join() takes back), the empty string being the one blank
\* line.  A line is held by the lengths of its leading whitespace, of its
\* body (which starts and ends with a non-blank; 0 for a line of whitespace
\* only, all of it counted as leading) and of its trailing whitespace.
BlankLine == [lead |-> 0, body |-> 0, trail |-> 0]

LineShapes ==
  {BlankLine,
   [lead |-> 1, body |-> 0, trail |-> 0],
   [lead |-> 0, body |-> ShortLine, trail |-> 0],
   [lead |-> 2, body |-> ShortLine, trail |-> 0],
   [lead |-> 0, body |-> ShortLine, trail |-> 1],
   [lead |-> 0, body |-> max_length - 1, trail |-> 0],
   [lead |-> 0, body |-> max_length + 1, trail |-> 0]}

Documents == UNION {[1..n -> LineShapes] : n \in 1..MaxLines}

LineLen(line) == line.lead + line.body + line.trail

\* len() of the lines each followed by '\n'.
RECURSIVE TextLen(_)
TextLen(lines) ==
  IF lines = <<>> THEN 0 ELSE LineLen(Head(lines)) + 1 + TextLen(Tail(lines))

\* len() of a string.
StrLen(lines) == TextLen(lines) - 1

\* str.strip() of the lines each followed by '\n': the whitespace before the
\* first body and after the last one goes, newlines and blank lines included.
strip(lines) ==
  LET inked == {i \in DOMAIN lines : lines[i].body > 0} IN
  IF inked = {} THEN <<BlankLine>>
  ELSE LET first == CHOOSE i \in inked : \A j \in inked : i <= j
           last == CHOOSE i \in inked : \A j \in inked : j <= i
       IN  [i \in 1..(last - first + 1) |->
             [lead |-> IF i = 1 THEN 0 ELSE lines[first + i - 1].lead,
              body |-> lines[first + i - 1].body,
              trail |-> IF first + i - 1 = last
                        THEN 0 ELSE lines[first + i - 1].trail]]

\* Mutant: the line that does not fit is not carried into the next chunk.
RECURSIVE split_lines_forgets(_, _, _, _, _)
split_lines_forgets(lines, i, current_chunk, chunks, max_len) ==
  IF i > Len(lines)
  THEN IF current_chunk # <<>>
       THEN Append(chunks, strip(current_chunk)) ELSE chunks
  ELSE IF TextLen(current_chunk) + LineLen(lines[i]) + 1 <= max_len
  THEN split_lines_forgets(lines, i + 1, Append(current_chunk, lines[i]),
                           chunks, max_len)
  ELSE split_lines_forgets(lines, i + 1, <<>>,
                           IF current_chunk # <<>>
                           THEN Append(chunks, strip(current_chunk))
                           ELSE chunks,
                           max_len)

\* split_long_message's loop from line number i on and what follows it;
\* current_chunk is held as its lines, each of them followed by '\n'.
RECURSIVE split_lines(_, _, _, _, _)
split_lines(lines, i, current_chunk, chunks, max_len) ==
  IF i > Len(lines)
  THEN IF current_chunk # <<>>
       THEN Append(chunks, strip(current_chunk)) ELSE chunks
  ELSE IF TextLen(current_chunk) + LineLen(lines[i]) + 1 <= max_len
  THEN split_lines(lines, i + 1, Append(current_chunk, lines[i]),
                   chunks, max_len)
  ELSE split_lines(lines, i + 1, <<lines[i]>>,
                   IF current_chunk # <<>>
                   THEN Append(chunks, strip(current_chunk))
                   ELSE chunks,
                   max_len)

split_long_message(message, max_len) ==
  IF StrLen(message) <= max_len THEN <<message>>
  ELSE split_lines(message, 1, <<>>, <<>>, max_len)

SplitInit ==
  /\ document \in Documents
  /\ pieces = <<>>

\* A call with the default max_length.
Split ==
  /\ pieces = <<>>
  /\ pieces' = split_long_message(document, max_length)
  /\ UNCHANGED document
  /\ UNCHANGED <<bot_vars, turn_vars, lookup_vars, reply_vars, auth_vars, race_vars>>

SplitNext == Split

\* One document is split; the rest of the program is at rest.
SplitStart == BotIdle /\ TurnIdle /\ SplitInit /\ LookupIdle /\ CompletionIdle /\ AuthIdle /\ InterleavedIdle

SplitSpec == SplitStart /\ [][SplitNext]_vars

\* ----------------------------------------- whoislookup, dnslookup, reversedns
\* A string is the sequence of its characters.  The argument of a command is
\* one of the words of the message: it holds no whitespace, so that the
\* handlers' strip() of it removes nothing.
Letters == {"a", "A", "h", "t", "p", "s", "w"}
Digits == {"1"}
Alnum == Letters \cup Digits
Http == <<"h", "t", "t", "p", ":", "/", "/">>
Https == <<"h", "t", "t", "p", "s", ":", "/", "/">>
Www == <<"w", "w", "w", ".">>

\* The targets typed: an optional scheme, an optional www., and up to
\* MaxTargetLen further characters.
TypedChars == {"a", "A", "1", "-", ".", "/", ":"}
Targets ==
  {p \o b : p \in {<<>>, Http, Www, Http \o Www},
            b \in UNION {[1..n -> TypedChars] : n \in 0..MaxTargetLen}}
    \ {<<>>}

Commands == {"whoislookup", "dnslookup", "reversedns"}
\* context.args: no argument, or the target first.
Requests == [command : Commands, args : {<<>>} \cup {<<t>> : t \in Targets}]

\* str.lower()
Lowered == [c \in {"A", "F", "P", "S"} |-> CASE c = "A" -> "a" [] c = "F" -> "f" [] c = "P" -> "p" [] c = "S" -> "s"]

lower(s) == [i \in DOMAIN s |-> IF s[i] \in DOMAIN Lowered THEN Lowered[s[i]] ELSE s[i]]

StartsWith(s, prefix) ==
  Len(s) >= Len(prefix) /\ SubSeq(s, 1, Len(prefix)) = prefix

Drop(s, n) == SubSeq(s, n + 1, Len(s))

\* str.split(c)
RECURSIVE SplitOn(_, _)
SplitOn(s, c) ==
  IF \A i \in DOMAIN s : s[i] # c THEN <<s>>
  ELSE LET k == CHOOSE i \in DOMAIN s :
                  s[i] = c /\ \A j \in 1..(i - 1) : s[j] # c
       IN  <<SubSeq(s, 1, k - 1)>> \o SplitOn(Drop(s, k), c)

\* clean_domain: the scheme and a leading www. go, then whatever follows the
\* first slash, then whatever follows the first colon.
clean_domain(domain) ==
  LET noscheme == IF StartsWith(domain, Http) THEN Drop(domain, Len(Http))
                  ELSE IF StartsWith(domain, Https)
                  THEN Drop(domain, Len(Https))
                  ELSE domain
      nowww == IF StartsWith(noscheme, Www)
               THEN Drop(noscheme, Len(Www)) ELSE noscheme
      host == Head(SplitOn(Head(SplitOn(nowww, "/")), ":"))
  IN  lower(host)

\* One label of the patterns: an alphanumeric, then optionally up to
\* max_label_inner alphanumerics or hyphens and one more alphanumeric.
LabelMatches(label) ==
  /\ label # <<>>
  /\ label[1] \in Alnum
  /\ label[Len(label)] \in Alnum
  /\ \A i \in DOMAIN label : label[i] \in Alnum \cup {"-"}
  /\ Len(label) <= max_label_inner + 2

\* Both patterns: labels with a dot between each two.
PatternMatches(domain) ==
  LET labels == SplitOn(domain, ".") IN
  \A i \in DOMAIN labels : LabelMatches(labels[i])

\* Mutant: a label may start or end with a hyphen.
is_valid_domain_lax(domain) ==
  /\ LET labels == SplitOn(domain, ".") IN
     \A i \in DOMAIN labels :
       /\ labels[i] # <<>>
       /\ \A j \in DOMAIN labels[i] : labels[i][j] \in Alnum \cup {"-"}
  /\ Len(domain) <= max_domain_length

\* whoislookup.py's is_valid_domain
is_valid_domain(domain) ==
  PatternMatches(domain) /\ Len(domain) <= max_domain_length

\* EnhancedDNSLookup.validate_domain
validate_domain(domain) == PatternMatches(domain)

\* EnhancedDNSLookup.validate_ip, that is socket.inet_aton: one to
\* max_ip_parts numbers with a dot between each two (every number that
\* MaxTargetLen digits can write is in range).
validate_ip(ip) ==
  LET parts == SplitOn(ip, ".") IN
  /\ Len(parts) <= max_ip_parts
  /\ \A i \in DOMAIN parts :
       parts[i] # <<>> /\ \A j \in DOMAIN parts[i] : parts[i][j] \in Digits

\* What a call of the transport (reply_text, Message.delete) ends in; every
\* exception it raises is an Exception to the handlers' except clauses.
HandlerTransport == {"ok", "TelegramError"}
\* The outcomes of n transport calls in a row.
TransportRuns(n) == [1..n -> HandlerTransport]

ReplyCall(kind, names) ==
  [op |-> "reply", kind |-> kind, names |-> names, outcome |-> "pending"]
DeleteCall(kind) ==
  [op |-> "delete", kind |-> kind, names |-> <<>>, outcome |-> "pending"]

\* The calls of `planned` that are made when the i-th ends in tr[i]: up to
\* the first that raises.
Deliver(planned, tr) ==
  LET failing == {i \in DOMAIN planned : tr[i] # "ok"}
      stop == IF failing = {} THEN Len(planned)
              ELSE CHOOSE i \in failing : \A j \in failing : i <= j
  IN  [i \in 1..stop |-> [planned[i] EXCEPT !.outcome = tr[i]]]

Failed(log) == log # <<>> /\ log[Len(log)].outcome # "ok"
\* The exception a run of calls ends with.
Exc(log) == IF Failed(log) THEN log[Len(log)].outcome ELSE "none"

\* What the services behind whoislookup's lookups do.
WhoisExternal ==
  [whois : {"ok", "failed"}, dns : {"records", "no_records", "errors"},
   ssl : {"ok", "failed"}]

\* get_whois_data: the failure is caught and returned.
get_whois_data(outcome) ==
  [success |-> outcome = "ok",
   error |-> IF outcome = "ok" THEN "none" ELSE "reason"]

\* get_dns_information: NXDOMAIN and NoAnswer leave empty record lists, any
\* other failure of the resolver an 'Error retrieving records' entry, and
\* success stays True; the first A entry is geolocated.
get_dns_information(outcome) ==
  [success |-> TRUE,
   records |-> outcome,
   geolocation |-> outcome # "no_records"]

\* get_ssl_information
get_ssl_information(outcome) ==
  [success |-> outcome = "ok",
   error |-> IF outcome = "ok" THEN "none" ELSE "reason"]

\* get_security_information
get_security_information == [success |-> TRUE, security_status |-> "Unknown"]

\* The lookups whoislookup's gather runs, each to its end, and the one
\* get_dns_information issues.
WhoisIssued(ext) ==
  LET four == [whois |-> ext.whois, dns |-> ext.dns, ssl |-> ext.ssl,
               security |-> "ok"]
  IN  IF ext.dns = "no_records" THEN four
      ELSE Put(four, "geolocation", "ok")

Section(name, content) == [name |-> name, content |-> content, reason |-> FALSE]

\* format_comprehensive_response: the sections of the report, in order.  No
\* section quotes a lookup's 'error', and security_info is not read.
format_comprehensive_response(domain, whois_data, dns_info, ssl_info, security_info) ==
  <<Section("header", "fixed")>>
  \o <<Section("whois", IF whois_data.success
                        THEN "populated" ELSE "domain_only")>>
  \o (IF whois_data.success
      THEN <<Section("registrant", "populated")>> ELSE <<>>)
  \o (IF dns_info.success
      THEN <<Section("dns",
                     IF dns_info.records = "records" THEN "populated"
                     ELSE IF dns_info.records = "errors" THEN "error_entries"
                     ELSE IF whois_data.success THEN "whois_name_servers"
                     ELSE "heading_only")>>
      ELSE <<>>)
  \o (IF ssl_info.success
      THEN <<Section("ssl", "populated")>>
      ELSE <<Section("ssl", "placeholder")>>)
  \o <<Section("footer", "fixed")>>

LookupInit ==
  /\ request \in Requests
  /\ results = EmptyDict
  /\ outbox = <<>>
  /\ report = <<>>
  /\ raised = "none"

\* The handler has ended having issued the lookups `issued`, made the calls
\* `log` and formatted `formatted`.
Handled(issued, log, formatted) ==
  /\ results' = issued
  /\ outbox' = log
  /\ report' = formatted
  /\ raised' = Exc(log)
  /\ UNCHANGED request
  /\ UNCHANGED <<bot_vars, turn_vars, split_vars, reply_vars, auth_vars, race_vars>>

\* The first reply of a handler, outside any try: the usage text, the
\* rejection of the target, or nothing but that.
Answer(call) ==
  \E tr \in TransportRuns(1) : Handled(EmptyDict, Deliver(<<call>>, tr), <<>>)

\* The try block's calls after the lookups `issued` and, when one of them
\* raises, the except block's: the 'please wait' message is deleted (again)
\* and the failure reported.  Deleting a message that is already deleted
\* raises.
TryExcept(issued, wait, planned, failure, formatted) ==
  \E tr \in TransportRuns(Len(planned)) :
    LET body == Deliver(planned, tr) IN
    IF ~Failed(body) THEN Handled(issued, wait \o body, formatted)
    ELSE \E rs \in {r \in TransportRuns(2) :
                      body[1].outcome = "ok" => r[1] # "ok"} :
           Handled(issued,
                   wait \o body \o Deliver(<<DeleteCall("wait"), failure>>, rs),
                   formatted)

\* /whoislookup.  The report is sent in one message, or in the chunks of
\* split_long_message when it is longer than max_length.
whoislookup ==
  /\ request.command = "whoislookup"
  /\ outbox = <<>>
  /\ IF request.args = <<>> THEN Answer(ReplyCall("help", <<>>))
     ELSE
     LET domain == clean_domain(lower(request.args[1])) IN
     IF ~is_valid_domain(domain) THEN Answer(ReplyCall("invalid", domain))
     ELSE
     \E first \in TransportRuns(1) :
       LET wait == Deliver(<<ReplyCall("wait", domain)>>, first) IN
       IF Failed(wait) THEN Handled(EmptyDict, wait, <<>>)
       ELSE
       \E ext \in WhoisExternal, parts \in 1..MaxParts :
         TryExcept(WhoisIssued(ext), wait,
                   <<DeleteCall("wait")>>
                     \o [i \in 1..parts |-> ReplyCall("report", domain)],
                   ReplyCall("lookup_failed", domain),
                   format_comprehensive_response(
                     domain, get_whois_data(ext.whois),
                     get_dns_information(ext.dns),
                     get_ssl_information(ext.ssl), get_security_information))

\* What asyncio.gather(..., return_exceptions=True) hands back for each of
\* dnslookup's lookups: what the lookup returned (each catches the failures
\* of its services and returns what it has) or, "raised", the exception it
\* ended in.
DnsExternal ==
  [dns : {"records", "errors", "raised"}, whois : {"ok", "failed", "raised"},
   security : {"ok", "degraded", "raised"},
   cdn : {"detected", "none", "raised"}]

\* "Handle exceptions": what dnslookup puts in the place of a result that is
\* an exception: {} for the DNS records and for the security checks,
\* {'error': ...} for WHOIS, {'detected': False} for the CDN.
substituted(ext) ==
  [dns |-> IF ext.dns = "raised" THEN "empty_dict" ELSE ext.dns,
   whois |-> IF ext.whois = "raised" THEN "failed" ELSE ext.whois,
   security |-> IF ext.security = "raised" THEN "empty_dict" ELSE ext.security,
   cdn |-> IF ext.cdn = "raised" THEN "none" ELSE ext.cdn]

\* The lookups dnslookup's gather runs, and those get_dns_records issues for
\* the addresses it found.
DnsIssued(ext) ==
  LET four == [dns |-> ext.dns, whois |-> ext.whois,
               security |-> ext.security, cdn |-> ext.cdn]
  IN  IF ext.dns = "records"
      THEN Put(Put(four, "geolocation", "ok"), "reverse_dns", "ok")
      ELSE four

\* EnhancedDNSLookup.format_response reads security_info['https_available']
\* and four more keys by subscript: what that raises.
format_response_raises(security_info) ==
  IF security_info = "empty_dict" THEN "KeyError" ELSE "none"

\* EnhancedDNSLookup.format_response: the sections of the report, in order.
format_response(domain, dns_records, whois_info, security_info, cdn_info) ==
  <<Section("header", "fixed")>>
  \o <<Section("dns", IF dns_records = "records"
                      THEN "populated" ELSE "heading_only")>>
  \o (IF cdn_info = "detected" THEN <<Section("cdn", "populated")>> ELSE <<>>)
  \o <<Section("security", "populated")>>
  \o (IF whois_info = "ok" THEN <<Section("whois", "populated")>> ELSE <<>>)

\* The try block has raised before its first transport call: the except
\* block deletes the 'please wait' message and reports the failure.
Rescue(issued, wait, failure) ==
  \E rs \in TransportRuns(2) :
    Handled(issued, wait \o Deliver(<<DeleteCall("wait"), failure>>, rs), <<>>)

\* /dnslookup.  The report is sent in slices of 4096 characters.
dnslookup ==
  /\ request.command = "dnslookup"
  /\ outbox = <<>>
  /\ IF request.args = <<>> THEN Answer(ReplyCall("help", <<>>))
     ELSE
     LET domain == lower(request.args[1]) IN
     IF ~validate_domain(domain) THEN Answer(ReplyCall("invalid", domain))
     ELSE
     \E first \in TransportRuns(1) :
       LET wait == Deliver(<<ReplyCall("wait", domain)>>, first) IN
       IF Failed(wait) THEN Handled(EmptyDict, wait, <<>>)
       ELSE
       \E ext \in DnsExternal :
         LET given == substituted(ext) IN
         IF format_response_raises(given.security) # "none"
         THEN Rescue(DnsIssued(ext), wait, ReplyCall("lookup_failed", domain))
         ELSE
         \E parts \in 1..MaxParts :
           TryExcept(DnsIssued(ext), wait,
                     <<DeleteCall("wait")>>
                       \o [i \in 1..parts |-> ReplyCall("report", domain)],
                     ReplyCall("lookup_failed", domain),
                     format_response(domain, given.dns, given.whois,
                                     given.security, given.cdn))

\* What the services behind reversedns's lookups do; both lookups catch
\* their failures.
ReverseExternal == [reverse_dns : {"ok", "none"}, geolocation : {"ok", "unknown"}]

\* /reversedns: the lookups and the reply are in one try block, the report
\* of a failure is outside it.
reversedns ==
  /\ request.command = "reversedns"
  /\ outbox = <<>>
  /\ IF request.args = <<>> THEN Answer(ReplyCall("help", <<>>))
     ELSE
     LET ip == request.args[1] IN
     IF ~validate_ip(ip) THEN Answer(ReplyCall("invalid", ip))
     ELSE
     \E ext \in ReverseExternal, tr \in TransportRuns(2) :
       LET body == Deliver(<<ReplyCall("report", ip)>>, tr)
           rescue == Deliver(<<ReplyCall("lookup_failed", ip)>>, Tail(tr))
       IN  Handled([reverse_dns |-> ext.reverse_dns,
                    geolocation |-> ext.geolocation],
                   IF Failed(body) THEN body \o rescue ELSE body,
                   <<Section("header", "fixed"),
                     Section("hostname", IF ext.reverse_dns = "ok"
                                         THEN "populated" ELSE "no_ptr"),
                     Section("geolocation", "populated")>>)

LookupNext == whoislookup \/ dnslookup \/ reversedns

\* One command is handled; the rest of the program is at rest.
LookupStart == BotIdle /\ TurnIdle /\ SplitIdle /\ LookupInit /\ CompletionIdle /\ AuthIdle /\ InterleavedIdle

LookupSpec == LookupStart /\ [][LookupNext]_vars

\* --------------------------------------- _generate_ai_response, the reply text
\* The content of a completion is `pad` whitespace characters around a body
\* of `body` characters that starts and ends with a non-blank.  A text made
\* of it is the slice of `len` characters from position `from` of the
\* content, followed or not by the marker "... (truncated)".
Completions ==
  [pad : 0..1,
   body : {0} \cup ((truncated_length - MaxExcess)..(max_reply_length + MaxExcess))]

\* No text yet.
NoReply == [state |-> "none", from |-> 0, len |-> 0, marker |-> FALSE]

\* content.strip()
stripped(content) ==
  [state |-> "text", from |-> content.pad, len |-> content.body,
   marker |-> FALSE]

\* len() of a text
ReplyLen(text) == text.len + (IF text.marker THEN marker_length ELSE 0)

\* Mutant: the cut keeps max_reply_length characters.
truncate_late(text) ==
  IF ReplyLen(text) > max_reply_length
  THEN [text EXCEPT !.len = max_reply_length, !.marker = TRUE]
  ELSE text

\* "Truncate if too long": ai_reply[:3900] + "... (truncated)"
truncate(text) ==
  IF ReplyLen(text) > max_reply_length
  THEN [text EXCEPT !.len = truncated_length, !.marker = TRUE]
  ELSE text

CompletionInit ==
  /\ completion \in Completions
  /\ ai_reply = NoReply

\* The attempt's code between the completion call and _reply_safely: a
\* content that is empty once stripped is raised as an Exception, any other
\* is stripped, truncated and handed to _reply_safely behind the "AI:" label.
Complete ==
  /\ ai_reply = NoReply
  /\ ai_reply' = IF ReplyLen(stripped(completion)) = 0
                 THEN [NoReply EXCEPT !.state = "Exception"]
                 ELSE truncate(stripped(completion))
  /\ UNCHANGED completion
  /\ UNCHANGED <<bot_vars, turn_vars, split_vars, lookup_vars, auth_vars, race_vars>>

CompletionNext == Complete

\* One completion is made into a reply; the rest of the program is at rest.
CompletionStart == BotIdle /\ TurnIdle /\ SplitIdle /\ LookupIdle /\ CompletionInit /\ AuthIdle /\ InterleavedIdle

CompletionSpec == CompletionStart /\ [][CompletionNext]_vars

\* ------------------------------------------- analyzeheader, the report's parts
\* response_parts is held like the lines of a document: each entry by the
\* lengths of its leading whitespace, body and trailing whitespace.  The
\* report starts with the three heading lines; the entries of `results`
\* follow.
HeadingLines ==
  <<[lead |-> 0, body |-> title_length, trail |-> 0],
    [lead |-> 0, body |-> analyzed_length, trail |-> 0],
    [lead |-> 0, body |-> rule_length, trail |-> 0]>>

ResultShapes ==
  {[lead |-> 0, body |-> ShortLine, trail |-> 0],
   [lead |-> 2, body |-> ShortLine, trail |-> 1],
   [lead |-> 0, body |-> report_max_length - 1, trail |-> 0],
   [lead |-> 0, body |-> report_max_length + 1, trail |-> 0]}

Reports ==
  {HeadingLines \o r : r \in UNION {[1..n -> ResultShapes] : n \in 0..MaxLines}}

\* line[:n] + "...": the whitespace kept in front, and the rest with the
\* dots as the body.
Truncated(line, n) ==
  LET kept == IF line.lead < n THEN line.lead ELSE n IN
  IF LineLen(line) <= n
  THEN [lead |-> line.lead, body |-> line.body + line.trail + ellipsis_length,
        trail |-> 0]
  ELSE [lead |-> kept, body |-> n - kept + ellipsis_length, trail |-> 0]

\* analyzeheader's loop over response_parts from entry number i on and what
\* follows it; current_part is held as its lines, each followed by '\n'.
RECURSIVE split_response_parts(_, _, _, _, _)
split_response_parts(lines, i, current_part, parts, max_len) ==
  IF i > Len(lines)
  THEN IF current_part # <<>>
       THEN Append(parts, strip(current_part)) ELSE parts
  ELSE IF TextLen(current_part) + LineLen(lines[i]) + 1 > max_len
  THEN IF current_part # <<>>
       THEN split_response_parts(lines, i + 1, <<lines[i]>>,
                                 Append(parts, strip(current_part)), max_len)
       ELSE split_response_parts(
              lines, i + 1, <<>>,
              Append(parts,
                     <<Truncated(lines[i], max_len - ellipsis_length)>>),
              max_len)
  ELSE split_response_parts(lines, i + 1, Append(current_part, lines[i]),
                            parts, max_len)

PartsInit ==
  /\ document \in Reports
  /\ pieces = <<>>

\* analyzeheader from full_response on: the messages the report is sent in.
SplitReport ==
  /\ pieces = <<>>
  /\ pieces' = IF StrLen(document) > report_max_length
               THEN split_response_parts(document, 1, <<>>, <<>>,
                                         report_max_length)
               ELSE <<document>>
  /\ UNCHANGED document
  /\ UNCHANGED <<bot_vars, turn_vars, lookup_vars, reply_vars, auth_vars, race_vars>>

PartsNext == SplitReport

\* One report is split; the rest of the program is at rest.
PartsStart == BotIdle /\ TurnIdle /\ PartsInit /\ LookupIdle /\ CompletionIdle /\ AuthIdle /\ InterleavedIdle

PartsSpec == PartsStart /\ [][PartsNext]_vars

\* -------------------------------------- analyzeheader, analyze_authentication

\* The header values are sequences of words; Chars spells a word out, and
\* Text joins the words of a value with single spaces into the string the
\* function reads.
ResultWords == {"pass", "fail", "softfail", "neutral", "none", "Pass", "SoftFail"}

CommentWords == {"sender", "bypassed", "failed"}

Chars(word) ==
  CASE word = "pass" -> <<"p", "a", "s", "s">>
    [] word = "fail" -> <<"f", "a", "i", "l">>
    [] word = "softfail" -> <<"s", "o", "f", "t", "f", "a", "i", "l">>
    [] word = "neutral" -> <<"n", "e", "u", "t", "r", "a", "l">>
    [] word = "none" -> <<"n", "o", "n", "e">>
    [] word = "Pass" -> <<"P", "a", "s", "s">>
    [] word = "SoftFail" -> <<"S", "o", "f", "t", "F", "a", "i", "l">>
    [] word = "sender" -> <<"s", "e", "n", "d", "e", "r">>
    [] word = "bypassed" -> <<"b", "y", "p", "a", "s", "s", "e", "d">>
    [] word = "failed" -> <<"f", "a", "i", "l", "e", "d">>
    [] word = "spf=pass" -> <<"s", "p", "f", "=", "p", "a", "s", "s">>
    [] word = "spf=fail" -> <<"s", "p", "f", "=", "f", "a", "i", "l">>
    [] word = "spf=softfail" -> <<"s", "p", "f", "=", "s", "o", "f", "t", "f", "a", "i", "l">>
    [] word = "dkim=pass" -> <<"d", "k", "i", "m", "=", "p", "a", "s", "s">>
    [] word = "dkim=fail" -> <<"d", "k", "i", "m", "=", "f", "a", "i", "l">>
    [] word = "dmarc=pass" -> <<"d", "m", "a", "r", "c", "=", "p", "a", "s", "s">>
    [] word = "dmarc=fail" -> <<"d", "m", "a", "r", "c", "=", "f", "a", "i", "l">>

RECURSIVE Text(_)
Text(words) ==
  IF words = <<>> THEN <<>>
  ELSE IF Len(words) = 1 THEN Chars(words[1])
  ELSE Chars(words[1]) \o <<" ">> \o Text(Tail(words))

\* sub in s
Contains(s, sub) ==
  \E i \in 1..(Len(s) - Len(sub) + 1) : SubSeq(s, i, i + Len(sub) - 1) = sub

\* A Received-SPF value: the result keyword, then the words of its comment.
SpfValues ==
  {<<r>> \o c : r \in ResultWords,
                c \in UNION {[1..n -> CommentWords] : n \in 0..MaxWords}}

AuthenticationResultsValues ==
  { <<"spf=pass", "dkim=pass", "dmarc=pass">>,
    <<"spf=fail", "dkim=fail", "dmarc=fail">>,
    <<"spf=softfail">> }

\* The headers analyze_authentication reads: each of the three fields is
\* there or not ("DKIM-Signature" is only tested for presence).
AuthHeaders ==
  { spf @@ dkim @@ ar :
      spf \in {EmptyDict} \cup {[x \in {"Received-SPF"} |-> v] : v \in SpfValues},
      dkim \in {EmptyDict, [x \in {"DKIM-Signature"} |-> <<>>]},
      ar \in {EmptyDict} \cup
             {[x \in {"Authentication-Results"} |-> v] :
                v \in AuthenticationResultsValues} }

\* The SPF analysis of the Received-SPF field: the tests in the order of
\* the code.
spf_of(spf_result) ==
  IF Contains(spf_result, Chars("pass")) THEN "PASS"
  ELSE IF Contains(spf_result, Chars("fail")) THEN "FAIL"
  ELSE IF Contains(spf_result, Chars("softfail")) THEN "SOFTFAIL"
  ELSE "UNKNOWN"

analyze_authentication(hs) ==
  LET spf == IF "Received-SPF" \in DOMAIN hs
             THEN [x \in {"SPF"} |-> spf_of(lower(Text(hs["Received-SPF"])))]
             ELSE EmptyDict
      dkim == IF "DKIM-Signature" \in DOMAIN hs
              THEN [x \in {"DKIM"} |-> "Present"]
              ELSE EmptyDict
      first == spf @@ dkim
  IN  IF "Authentication-Results" \notin DOMAIN hs THEN first
      ELSE
        LET auth_header == lower(Text(hs["Authentication-Results"]))
            found(key, field, was) ==
              IF Contains(auth_header, Chars(key \o "=pass"))
              THEN [x \in {field} |-> "PASS"] @@ was
              ELSE IF Contains(auth_header, Chars(key \o "=fail"))
              THEN [x \in {field} |-> "FAIL"] @@ was
              ELSE was
            with_spf == IF "SPF" \notin DOMAIN first
                        THEN found("spf", "SPF", first)
                        ELSE first
            with_dkim == found("dkim", "DKIM", with_spf)
        IN  found("dmarc", "DMARC", with_dkim)

AuthInit ==
  /\ headers \in AuthHeaders
  /\ auth_results = [state |-> "none", found |-> EmptyDict]

Analyze ==
  /\ auth_results.state = "none"
  /\ auth_results' = [state |-> "returned",
                      found |-> analyze_authentication(headers)]
  /\ UNCHANGED <<headers>>
  /\ UNCHANGED <<bot_vars, turn_vars, split_vars, lookup_vars, reply_vars, race_vars>>

AuthNext == Analyze

AuthStart == BotIdle /\ TurnIdle /\ SplitIdle /\ LookupIdle /\ CompletionIdle /\ AuthInit /\ InterleavedIdle

AuthSpec == AuthStart /\ [][AuthNext]_vars

\* ------------------------------ the handlers interleaved at their awaits
\* The same session manager when the event loop runs a handler while
\* another one waits in an await.  A step is the code between two awaits:
\* start_ai and stop_ai change the state before their first await, the
\* message handler runs from its cleanup to the first await of
\* _generate_ai_response, and _generate_ai_response goes on whenever the
\* completion call, the backoff sleep or the reply it waits for returns.  An
\* await lasts any time.  A turn keeps the session object it appended to in
\* its local variable `session`; a user's sessions are at least a cooldown
\* apart, so created_at tells them apart.  One turn of a user waits at a
\* time.
bot_log == <<last_op, last_user, replies, wait_minutes, calls, appended, swept, started_at, exhausted>>

NoTurn == [pc |-> "none", attempt |-> 0, session |-> 0]

\* del d[k] raises KeyError when k is not a key of d.
KeyErrorAt(d, k, handler) == IF Has(d, k) THEN {} ELSE {handler}

\* The clock moves on while the handlers wait.
InterleavedTick ==
  /\ \E t \in ClockReadings : t > now /\ now' = t
  /\ UNCHANGED <<ai_sessions, user_last_ai_time, bot_log, race_vars>>
  /\ UNCHANGED <<turn_vars, split_vars, lookup_vars, reply_vars, auth_vars>>

\* start_ai up to its reply.
interleaved_start_ai(u) ==
  /\ LET last_time == Get(user_last_ai_time, u, 0) IN
     IF CooldownActive(now, last_time)
     THEN UNCHANGED <<now, ai_sessions, user_last_ai_time>>
     ELSE \E t \in ClockReadings :
            /\ now <= t /\ t <= now + 1
            /\ now' = t
            /\ ai_sessions' =
                 Put(IF Has(ai_sessions, u) THEN Del(ai_sessions, u)
                     ELSE ai_sessions, u, NewSession(u, t))
            /\ user_last_ai_time' = Put(user_last_ai_time, u, now)
  /\ UNCHANGED <<bot_log, race_vars>>
  /\ UNCHANGED <<turn_vars, split_vars, lookup_vars, reply_vars, auth_vars>>

\* stop_ai up to its reply.
interleaved_stop_ai(u) ==
  /\ ai_sessions' = IF Has(ai_sessions, u) THEN Del(ai_sessions, u)
                    ELSE ai_sessions
  /\ UNCHANGED <<now, user_last_ai_time, bot_log, race_vars>>
  /\ UNCHANGED <<turn_vars, split_vars, lookup_vars, reply_vars, auth_vars>>

\* ai_message_handler up to its first await: the reply of a rejected text,
\* the reply of the ceiling, or the completion call of the first attempt
\* (the typing indicator before it changes nothing).
interleaved_ai_message_handler(u, text) ==
  /\ in_flight[u].pc = "none"
  /\ LET live == cleanup_expired_sessions(ai_sessions, now) IN
     IF ~Has(live, u) \/ Validate(text) # "ok"
     THEN /\ ai_sessions' = live
          /\ UNCHANGED race_vars
     ELSE LET session == add_message(live[u], StrippedLen(text)) IN
          IF ~should_continue(session)
          THEN /\ ai_sessions' = Del(live, u)
               /\ key_errors' =
                    key_errors \cup KeyErrorAt(live, u, "ai_message_handler")
               /\ UNCHANGED in_flight
          ELSE /\ ai_sessions' = Put(live, u, session)
               /\ in_flight' =
                    [in_flight EXCEPT ![u] =
                       [pc |-> "call", attempt |-> 0,
                        session |-> session.created_at]]
               /\ UNCHANGED key_errors
  /\ UNCHANGED <<now, user_last_ai_time, bot_log>>
  /\ UNCHANGED <<turn_vars, split_vars, lookup_vars, reply_vars, auth_vars>>

\* The completion call of an attempt returns: the reply is sent, or the
\* attempt failed and the turn sleeps, or, after the last attempt, sends
\* the failure notice.
completion_returns(u, outcome) ==
  /\ in_flight[u].pc = "call"
  /\ in_flight' =
       [in_flight EXCEPT ![u].pc =
          IF outcome = "ok" THEN "reply"
          ELSE IF in_flight[u].attempt = max_retries - 1 THEN "notice"
          ELSE "sleep"]
  /\ UNCHANGED <<now, ai_sessions, user_last_ai_time, bot_log, key_errors>>
  /\ UNCHANGED <<turn_vars, split_vars, lookup_vars, reply_vars, auth_vars>>

\* The backoff sleep returns: the next attempt.
sleep_returns(u) ==
  /\ in_flight[u].pc = "sleep"
  /\ in_flight' = [in_flight EXCEPT ![u].pc = "call", ![u].attempt = @ + 1]
  /\ UNCHANGED <<now, ai_sessions, user_last_ai_time, bot_log, key_errors>>
  /\ UNCHANGED <<turn_vars, split_vars, lookup_vars, reply_vars, auth_vars>>

\* The reply of a successful attempt returns: the turn is over.
reply_returns(u) ==
  /\ in_flight[u].pc = "reply"
  /\ in_flight' = [in_flight EXCEPT ![u] = NoTurn]
  /\ UNCHANGED <<now, ai_sessions, user_last_ai_time, bot_log, key_errors>>
  /\ UNCHANGED <<turn_vars, split_vars, lookup_vars, reply_vars, auth_vars>>

\* The failure notice returns: the teardown, `if session.user_id in
\* self.ai_sessions: del self.ai_sessions[session.user_id]`.
notice_returns(u) ==
  /\ in_flight[u].pc = "notice"
  /\ ai_sessions' = IF Has(ai_sessions, u) THEN Del(ai_sessions, u)
                    ELSE ai_sessions
  /\ in_flight' = [in_flight EXCEPT ![u] = NoTurn]
  /\ UNCHANGED <<now, user_last_ai_time, bot_log, key_errors>>
  /\ UNCHANGED <<turn_vars, split_vars, lookup_vars, reply_vars, auth_vars>>

InterleavedNext ==
  \/ InterleavedTick
  \/ \E u \in Users : interleaved_start_ai(u)
  \/ \E u \in Users : interleaved_stop_ai(u)
  \/ \E u \in Users, text \in Texts : interleaved_ai_message_handler(u, text)
  \/ \E u \in Users, outcome \in {"ok"} \cup Failures : completion_returns(u, outcome)
  \/ \E u \in Users : sleep_returns(u)
  \/ \E u \in Users : reply_returns(u)
  \/ \E u \in Users : notice_returns(u)

InterleavedSpec == Init /\ [][InterleavedNext]_vars

\* ------------------------------------------------------------------ claims
Age(u) == now - ai_sessions[u].created_at
LastStart(u) == started_at[u][Len(started_at[u])]
\* The step is the handling of one `op` update of user u.
Handles(op, u) == last_op' = op /\ last_user' = u

\* C1: two starts of a user that are answered "started" are at least the
\* cooldown (3600 s) apart, and a start handled less than 3600 s after the
\* user's last successful start is answered with the cooldown notice and
\* neither creates a session nor touches the stored one.
C1_StartsCooldownApart ==
  [][\A u \in Users :
       /\ \A i, j \in 1..Len(started_at'[u]) :
            i < j => started_at'[u][j] - started_at'[u][i] >= user_cooldown
       /\ (Handles("start", u) /\ started_at[u] # <<>>
             /\ now - LastStart(u) < user_cooldown)
          => /\ replies' = <<"cooldown">>
             /\ ai_sessions' = ai_sessions
             /\ user_last_ai_time' = user_last_ai_time
             /\ started_at' = started_at]_vars

\* A user has started twice, and a further start is turned away while the
\* session of the second start is stored.
C1_Witness ==
  \E u \in Users :
    /\ Len(started_at[u]) = 2
    /\ last_op = "start" /\ last_user = u /\ replies = <<"cooldown">>
    /\ Has(ai_sessions, u)

\* C2: the first start of a user without a cooldown record succeeds and
\* creates a session, whatever the clock reads.
C2_FirstStartSucceeds ==
  [][\A u \in Users :
       (Handles("start", u) /\ ~Has(user_last_ai_time, u))
       => (replies' = <<"started">> /\ Has(ai_sessions', u))]_vars

\* C3: the wait estimate of a cooldown notice, in seconds, is above 0 and at
\* most the cooldown (here for a user who has a cooldown record).
C3_WaitEstimateWithinCooldown ==
  (last_op = "start" /\ replies = <<"cooldown">>
     /\ Has(user_last_ai_time, last_user))
  => (wait_minutes * seconds_per_minute > 0
      /\ wait_minutes * seconds_per_minute <= user_cooldown)

\* The turn that appends the session's max_messages-th message leaves the
\* user without a session.
CeilingEndsSession ==
  (last_op' = "turn" /\ appended' = max_messages)
  => ~Has(ai_sessions', last_user')

\* C4 as stated: after max_messages accepted turns the user has no session,
\* and a further turn of that user sends no reply, makes no completion call
\* and changes no state at all.
C4_TurnAfterCeilingChangesNothing ==
  [][/\ CeilingEndsSession
     /\ \A u \in Users :
          (Handles("turn", u) /\ u \in exhausted)
          => /\ replies' = <<>> /\ calls' = 0 /\ appended' = 0
             /\ ai_sessions' = ai_sessions
             /\ user_last_ai_time' = user_last_ai_time]_vars

\* C4 as amended: after max_messages accepted turns the user has no session,
\* and a further turn of that user sends no reply, makes no completion call,
\* gives the user no session and changes no cooldown record and no session
\* that is not expired (the handler's cleanup may remove the expired sessions
\* of other users).
C4_TurnAfterCeilingIgnored ==
  [][/\ CeilingEndsSession
     /\ \A u \in Users :
          (Handles("turn", u) /\ u \in exhausted)
          => /\ replies' = <<>> /\ calls' = 0 /\ appended' = 0
             /\ ~Has(ai_sessions, u) /\ ~Has(ai_sessions', u)
             /\ user_last_ai_time' = user_last_ai_time
             /\ DOMAIN ai_sessions' \subseteq DOMAIN ai_sessions
             /\ \A v \in DOMAIN ai_sessions :
                  IF Age(v) <= session_timeout
                  THEN Has(ai_sessions', v) /\ ai_sessions'[v] = ai_sessions[v]
                  ELSE ~Has(ai_sessions', v)]_vars

\* A turn of a user whose session ended at the ceiling has been ignored, and
\* its cleanup removed another user's expired session.
C4_Witness ==
  /\ last_op = "turn" /\ last_user \in exhausted
  /\ replies = <<>> /\ calls = 0
  /\ DOMAIN swept # {}

\* C5: every accepted turn, the one that reaches the ceiling included, is
\* forwarded to the completion service (5 accepted turns, 5 calls).
C5_EveryAcceptedTurnForwarded ==
  (last_op = "turn" /\ appended >= 1) => calls >= 1

\* C6: a turn that validation rejects (empty once stripped, or longer than
\* 2000 characters) leaves the user's session as it was, message list
\* included, and makes no completion call.
C6_RejectedTurnKeepsSession ==
  [][\A u \in Users, text \in Texts :
       (/\ Handles("turn", u)
        /\ Has(ai_sessions, u) /\ Age(u) <= session_timeout
        /\ (text.body = 0 \/ text.body > max_text_length)
        /\ ai_message_handler(u, text))
       => /\ Has(ai_sessions', u)
          /\ ai_sessions'[u] = ai_sessions[u]
          /\ calls' = 0 /\ appended' = 0
          /\ replies' \in {<<"empty">>, <<"too_long">>}]_vars

\* A session with messages has had a turn rejected for its length.
C6_Witness ==
  /\ last_op = "turn" /\ replies = <<"too_long">>
  /\ Has(ai_sessions, last_user)
  /\ Len(ai_sessions[last_user].messages) >= 1

C8_StoredIffLive ==
  \A u \in DOMAIN ai_sessions :
    /\ Age(u) <= session_timeout
    /\ Len(ai_sessions[u].messages) < max_messages

\* C8 as amended: in every state a stored session has fewer than
\* max_messages messages, and right after a text turn has been handled no
\* stored session is expired; between turns the store may hold expired
\* sessions.
C8_StoredLiveAfterTurn ==
  \A u \in DOMAIN ai_sessions :
    /\ Len(ai_sessions[u].messages) < max_messages
    /\ last_op = "turn" => Age(u) <= session_timeout

\* A turn's cleanup has removed an expired session and kept a live one.
C8_Witness ==
  /\ last_op = "turn"
  /\ DOMAIN swept # {}
  /\ DOMAIN ai_sessions # {}

\* C9: stop of a user with a session removes that session and no other and
\* answers "stopped"; stop of a user without one changes no state and
\* answers "no active session".
C9_StopRemovesOwnSession ==
  [][\A u \in Users :
       Handles("stop", u)
       => /\ user_last_ai_time' = user_last_ai_time
          /\ IF Has(ai_sessions, u)
             THEN /\ replies' = <<"stopped">>
                  /\ DOMAIN ai_sessions' = DOMAIN ai_sessions \ {u}
                  /\ \A v \in DOMAIN ai_sessions' :
                       ai_sessions'[v] = ai_sessions[v]
             ELSE /\ replies' = <<"no_session">>
                  /\ ai_sessions' = ai_sessions]_vars

\* A user's session has been stopped while the other user's is stored.
C9_Witness ==
  /\ last_op = "stop" /\ replies = <<"stopped">>
  /\ DOMAIN ai_sessions # {}

\* C10: a cooldown record is never removed, and changes only in the step
\* that answers that user's start with "started".
C10_CooldownRecordOnlyByStart ==
  [][\A u \in Users :
       /\ Has(user_last_ai_time, u) => Has(user_last_ai_time', u)
       /\ Get(user_last_ai_time', u, -1) # Get(user_last_ai_time, u, -1)
          => (Handles("start", u) /\ replies' = <<"started">>)]_vars

\* A user's session has been stopped and the cooldown record is still there.
C10_Witness ==
  /\ last_op = "stop" /\ replies = <<"stopped">>
  /\ Has(user_last_ai_time, last_user)
  /\ ~Has(ai_sessions, last_user)

\* The turn handled last made max_retries completion attempts and all failed.
RetriesExhausted ==
  last_op = "turn" /\ calls = max_retries /\ replies # <<"ai">>

\* C11 as stated: when all max_retries completion attempts of an accepted
\* turn have failed, whatever the mix of failures, the user's session is
\* removed and the one notice sent says that the service is unavailable.
C11_ExhaustedRetriesSayUnavailable ==
  RetriesExhausted
  => (~Has(ai_sessions, last_user) /\ replies = <<"unavailable">>)

\* C11 as amended: when all max_retries completion attempts of an accepted
\* turn have failed, the user's session is removed and exactly one failure
\* notice is issued: the "service temporarily unavailable" notice when the
\* last failure was API-classified, the "error generating AI response" notice
\* when it was any other error.
C11_ExhaustedRetriesEndSession ==
  /\ RetriesExhausted
     => /\ ~Has(ai_sessions, last_user)
        /\ replies \in {<<"unavailable">>, <<"generation_error">>}
  /\ \A outs \in [1..max_retries -> Failures] :
       generate_ai_response(outs, 0).replies =
         <<IF outs[max_retries] = "OpenAIError"
           THEN "unavailable" ELSE "generation_error">>

\* Three attempts of a turn have failed, the last with an error that is not
\* API-classified, and the user's session is gone.
C11_Witness ==
  /\ RetriesExhausted
  /\ replies = <<"generation_error">>
  /\ ~Has(ai_sessions, last_user)
  /\ Has(user_last_ai_time, last_user)

\* C12: a text turn of a user without a stored session sends no reply, makes
\* no completion call, and creates or changes no session and no cooldown
\* record of that user.
C12_TurnWithoutSessionIsNoOp ==
  [][\A u \in Users :
       (Handles("turn", u) /\ ~Has(ai_sessions, u))
       => /\ replies' = <<>> /\ calls' = 0 /\ appended' = 0
          /\ ~Has(ai_sessions', u)
          /\ Has(user_last_ai_time', u) = Has(user_last_ai_time, u)
          /\ Get(user_last_ai_time', u, -1) = Get(user_last_ai_time, u, -1)]_vars

\* A turn of a user who has a cooldown record and had no session (none was
\* swept either) has been handled without a reply.
C12_Witness ==
  /\ last_op = "turn" /\ replies = <<>> /\ appended = 0
  /\ ~Has(swept, last_user)
  /\ ~Has(ai_sessions, last_user)
  /\ Has(user_last_ai_time, last_user)

\* C13: whatever the transport raises when a reply is delivered, no
\* exception leaves _reply_safely; after a NetworkError or TimedOut of the
\* first send the helper makes exactly one further send, in plain text, and
\* whatever that one raises nothing more is sent; after any other failure it
\* makes no further send.
C13_ReplyHelperContainsFailures ==
  /\ escaped = "none"
  /\ Len(sends) <= 2
  /\ Len(sends) = 2
     => /\ sends[1].outcome \in {"NetworkError", "TimedOut"}
        /\ sends[2].parse_mode = "none"
  /\ turn_pc = "done"
     => /\ Len(sends) >= 1
        /\ sends[1].outcome \in {"NetworkError", "TimedOut"} => Len(sends) = 2

\* The first send timed out and the second send failed too: the handling of
\* the turn has ended all the same.
C13_Witness ==
  /\ turn_pc = "done"
  /\ Len(sends) = 2
  /\ sends[1].outcome = "TimedOut"
  /\ sends[2].outcome # "ok"

\* The well-formed names: letters, digits, hyphens and dots, no dot or hyphen
\* at either end, no dot next to a dot or to a hyphen.
WellFormedName(s) ==
  /\ s # <<>>
  /\ \A i \in DOMAIN s : s[i] \in Alnum \cup {"-", "."}
  /\ s[1] \in Alnum /\ s[Len(s)] \in Alnum
  /\ \A i \in 1..(Len(s) - 1) :
       /\ s[i] = "." => s[i + 1] \notin {".", "-"}
       /\ s[i + 1] = "." => s[i] \notin {".", "-"}

\* The well-formed addresses: digits and at most three dots, no dot at either
\* end, no dot next to a dot.
WellFormedAddress(s) ==
  /\ s # <<>>
  /\ \A i \in DOMAIN s : s[i] \in Digits \cup {"."}
  /\ s[1] # "." /\ s[Len(s)] # "."
  /\ \A i \in 1..(Len(s) - 1) : ~(s[i] = "." /\ s[i + 1] = ".")
  /\ Cardinality({i \in DOMAIN s : s[i] = "."}) < max_ip_parts

\* The value a handler validates: the target lowercased, and cleaned by
\* whoislookup; the target as typed by reversedns.
Validated ==
  IF request.command = "whoislookup"
  THEN clean_domain(lower(request.args[1]))
  ELSE IF request.command = "dnslookup" THEN lower(request.args[1])
  ELSE request.args[1]

Acceptable ==
  IF request.command = "reversedns" THEN WellFormedAddress(Validated)
  ELSE WellFormedName(Validated)

\* C14: whoislookup, dnslookup and reversedns validate the target before
\* they issue any lookup: for a target that is not well-formed no lookup is
\* issued and the only transport call is the reply that rejects the value
\* validated, naming it; lookups are issued for well-formed targets only.
C14_ValidationBeforeLookups ==
  (outbox # <<>> /\ request.args # <<>>)
  => IF Acceptable
     THEN outbox[1].kind # "invalid"
     ELSE /\ results = EmptyDict
          /\ Len(outbox) = 1
          /\ outbox[1].op = "reply"
          /\ outbox[1].kind = "invalid"
          /\ outbox[1].names = Validated

\* whoislookup has rejected a target with a scheme whose name starts with a
\* hyphen, naming the cleaned value.
C14_Witness ==
  /\ request.command = "whoislookup"
  /\ request.args # <<>>
  /\ StartsWith(request.args[1], Http)
  /\ Len(outbox) = 1
  /\ outbox[1].kind = "invalid"
  /\ outbox[1].names # <<>>
  /\ outbox[1].names[1] = "-"
  /\ results = EmptyDict

\* whoislookup has formatted a report.
Reported == request.command = "whoislookup" /\ report # <<>>

HasSection(name, content) ==
  \E i \in DOMAIN report :
    report[i].name = name /\ report[i].content = content

\* C15: whatever the four gathered lookups end in, all four have run to
\* their end, a report is formatted and, the transport permitting, sent, and
\* every lookup that succeeded has its section populated in it.
C15_SucceededLookupsPopulateReport ==
  Reported
  => /\ {"whois", "dns", "ssl", "security"} \subseteq DOMAIN results
     /\ (\A i \in DOMAIN outbox : outbox[i].outcome = "ok")
        => \E i \in DOMAIN outbox : outbox[i].kind = "report"
     /\ results["whois"] = "ok" => HasSection("whois", "populated")
     /\ results["dns"] = "records" => HasSection("dns", "populated")
     /\ results["ssl"] = "ok" => HasSection("ssl", "populated")
     /\ results["security"] = "ok" => HasSection("security", "populated")

\* C16: every lookup that failed has its own placeholder section in the
\* report, marked unavailable with the reason of the failure.
C16_FailedLookupsHavePlaceholders ==
  Reported
  => \A lookup \in {"whois", "dns", "ssl"} :
       results[lookup] \in {"failed", "errors"}
       => \E i \in DOMAIN report :
            /\ report[i].name = lookup
            /\ report[i].content = "placeholder"
            /\ report[i].reason

\* C17: every chunk split_long_message returns for a document longer than
\* the limit is at most max_length long, whatever the lengths of the lines.
C17_ChunksWithinLimit ==
  (pieces # <<>> /\ StrLen(document) > max_length)
  => \A i \in DOMAIN pieces : StrLen(pieces[i]) <= max_length

\* '\n'.join(chunks)
RECURSIVE Rejoin(_)
Rejoin(chunks) ==
  IF chunks = <<>> THEN <<>> ELSE Head(chunks) \o Rejoin(Tail(chunks))

\* The bodies of the lines that have one, in order.
RECURSIVE Inked(_)
Inked(lines) ==
  IF lines = <<>> THEN <<>>
  ELSE (IF Head(lines).body > 0 THEN <<Head(lines).body>> ELSE <<>>)
       \o Inked(Tail(lines))

\* The chunks are, in order, consecutive runs of the lines, each stripped.
RECURSIVE StrippedRuns(_, _)
StrippedRuns(lines, chunks) ==
  IF chunks = <<>> THEN lines = <<>>
  ELSE \E k \in 1..Len(lines) :
         /\ strip(SubSeq(lines, 1, k)) = Head(chunks)
         /\ StrippedRuns(SubSeq(lines, k + 1, Len(lines)), Tail(chunks))

\* C18 as stated: the chunks of a document longer than the limit, joined in
\* order with the line separator, are the document.
C18_ChunksRejoinToDocument ==
  (pieces # <<>> /\ StrLen(document) > max_length)
  => Rejoin(pieces) = document

\* C18 as amended: the chunks of a document longer than the limit are, in
\* order, consecutive runs of whole lines of the document that cover each of
\* its lines once, each run with its leading and trailing whitespace (blank
\* lines included) stripped; joined with the line separator they hold the
\* document's non-blank lines in order, and every chunk boundary is a line
\* boundary of the document.
C18_ChunksAreStrippedRuns ==
  (pieces # <<>> /\ StrLen(document) > max_length)
  => /\ StrippedRuns(document, pieces)
     /\ Inked(Rejoin(pieces)) = Inked(document)

\* A document has been split in two chunks or more, and a blank line or
\* some whitespace at a chunk's edge is gone.
C18_Witness ==
  /\ StrLen(document) > max_length
  /\ Len(pieces) >= 2
  /\ Rejoin(pieces) # document

\* C19: whatever the lookups end in and whatever the transport raises, no
\* exception leaves the whoislookup handler.
C19_NoExceptionLeavesWhoislookup ==
  request.command = "whoislookup" => raised = "none"

\* What the retry loop has done so far: at most max_retries attempts, none
\* after a success, and after the failed attempt number k - 1 that is not
\* the last a sleep of 2^(k-1) seconds when the failure was API-classified
\* and of 1 second otherwise; when the handling has ended, every attempt but
\* the last was followed by a sleep and the last by none.
RetryDiscipline ==
  /\ Len(outcomes) <= max_retries
  /\ \A k \in 1..(Len(outcomes) - 1) : outcomes[k] # "ok"
  /\ Len(slept) <= Len(outcomes)
  /\ \A k \in 1..Len(slept) :
       slept[k] = IF outcomes[k] = "OpenAIError" THEN 2 ^ (k - 1) ELSE 1
  /\ turn_pc = "done" => Len(slept) = Len(outcomes) - 1

\* C20: the handling of an accepted turn makes at most max_retries
\* completion attempts, stops at the first success, sleeps 1 s and then 2 s
\* after API-classified failures and 1 s after any other, does not sleep
\* after the last failed attempt, and ends.
C20_BoundedRetriesTerminate ==
  []RetryDiscipline /\ <>(turn_pc = "done")

\* Three attempts have failed, the first two API-classified; the handling
\* has slept 1 s and 2 s and has ended.
C20_Witness ==
  /\ turn_pc = "done"
  /\ outcomes = <<"OpenAIError", "OpenAIError", "Exception">>
  /\ slept = <<1, 2>>

\* C21: a start of a user who has a stored session tests the cooldown again;
\* when the cooldown has elapsed the stored session is discarded and replaced
\* by a new one with no messages and a created_at of this start, and the
\* cooldown record becomes the time of this start; when it has not elapsed
\* the stored session and the cooldown record stay as they are.
C21_StartWhileStoredReplaces ==
  [][\A u \in Users :
       (Handles("start", u) /\ Has(ai_sessions, u))
       => IF now - Get(user_last_ai_time, u, 0) >= user_cooldown
          THEN /\ replies' = <<"started">>
               /\ Has(ai_sessions', u)
               /\ ai_sessions'[u].messages = <<>>
               /\ ai_sessions'[u].created_at >= now
               /\ ai_sessions'[u].created_at > ai_sessions[u].created_at
               /\ Get(user_last_ai_time', u, -1) = now
          ELSE /\ replies' = <<"cooldown">>
               /\ ai_sessions' = ai_sessions
               /\ user_last_ai_time' = user_last_ai_time]_vars

\* A start has discarded the user's stored session, which held messages, and
\* put a session without messages in its place.
C21_Witness ==
  /\ last_op = "start" /\ replies = <<"started">>
  /\ Has(swept, last_user)
  /\ Len(swept[last_user].messages) >= 1
  /\ Has(ai_sessions, last_user)
  /\ ai_sessions[last_user].messages = <<>>
  /\ ai_sessions[last_user].created_at > swept[last_user].created_at

\* C24: between two handler executions every stored session holds between 0
\* and max_messages - 1 messages: the turn that appends the message number
\* max_messages removes the session in the same step.
C24_StoredBelowCeiling ==
  /\ \A u \in DOMAIN ai_sessions :
       Len(ai_sessions[u].messages) \in 0..(max_messages - 1)
  /\ (last_op = "turn" /\ appended >= max_messages)
     => (appended = max_messages /\ ~Has(ai_sessions, last_user))

\* The turn handled last appended the message number max_messages, and the
\* user's session is gone.
C24_Witness ==
  /\ last_op = "turn"
  /\ appended = max_messages
  /\ replies = <<"limit">>
  /\ ~Has(ai_sessions, last_user)

\* C25: a user with a stored session has a cooldown record that is not later
\* than the session's created_at; so a start of a user whose stored session
\* is not expired is answered with the cooldown notice and leaves the session
\* as it is, and a start that replaces a stored session replaces an expired
\* one.
C25_StoredSessionHasCooldownRecord ==
  [][/\ \A u \in DOMAIN ai_sessions' :
          /\ Has(user_last_ai_time', u)
          /\ user_last_ai_time'[u] <= ai_sessions'[u].created_at
     /\ \A u \in Users :
          (Handles("start", u) /\ Has(ai_sessions, u))
          => /\ Age(u) <= session_timeout
                => (replies' = <<"cooldown">> /\ ai_sessions' = ai_sessions)
             /\ replies' = <<"started">> => Age(u) > session_timeout]_vars

\* A start of a user whose stored session holds messages and is not expired
\* has been answered with the cooldown notice.
C25_Witness ==
  /\ last_op = "start" /\ replies = <<"cooldown">>
  /\ Has(ai_sessions, last_user)
  /\ Age(last_user) <= session_timeout
  /\ Len(ai_sessions[last_user].messages) >= 1
  /\ user_last_ai_time[last_user] <= ai_sessions[last_user].created_at

\* C26: a start, stop or turn of user a leaves the cooldown record of every
\* other user b as it is, creates no session of b, and leaves b's session as
\* it is, but for this: every turn of a, with or without a session of a,
\* removes b's session when it is expired (now - created_at > 1800).
C26_OtherUsersUntouched ==
  [][\A a, b \in Users :
       (a # b /\ last_user' = a /\ last_op' \in {"start", "stop", "turn"})
       => /\ Has(user_last_ai_time', b) = Has(user_last_ai_time, b)
          /\ Get(user_last_ai_time', b, -1) = Get(user_last_ai_time, b, -1)
          /\ ~Has(ai_sessions, b) => ~Has(ai_sessions', b)
          /\ Has(ai_sessions, b)
             => IF last_op' = "turn" /\ Age(b) > session_timeout
                THEN ~Has(ai_sessions', b)
                ELSE /\ Has(ai_sessions', b)
                     /\ ai_sessions'[b] = ai_sessions[b]]_vars

\* A turn of a user who never started a session has removed another user's
\* expired session, and that user's cooldown record is still there.
C26_Witness ==
  /\ last_op = "turn" /\ replies = <<>>
  /\ ~Has(user_last_ai_time, last_user)
  /\ \E b \in Users \ {last_user} :
       /\ Has(swept, b)
       /\ now - swept[b].created_at > session_timeout
       /\ ~Has(ai_sessions, b)
       /\ Has(user_last_ai_time, b)

C27_NoEmptyChunk ==
  (pieces # <<>> /\ StrLen(document) > max_length)
  => \A i \in DOMAIN pieces : StrLen(pieces[i]) >= 1

\* C28: every part analyzeheader's loop makes of a report longer than 4000
\* characters is at most max_length (4000) long, whatever the lengths of the
\* report's lines, a line longer than 4000 behind a part that is not empty
\* included.
C28_PartsWithinLimit ==
  (pieces # <<>> /\ StrLen(document) > report_max_length
     /\ SubSeq(document, 1, Len(HeadingLines)) = HeadingLines)
  => \A i \in DOMAIN pieces : StrLen(pieces[i]) <= report_max_length

\* C29: analyze_authentication classifies a Received-SPF header by its
\* result keyword: a header containing "pass" is reported as PASS;
\* otherwise one whose result is "softfail" as SOFTFAIL, one whose result
\* is "fail" as FAIL, and anything else as UNKNOWN.
C29_SpfByResultKeyword ==
  (auth_results.state = "returned" /\ "Received-SPF" \in DOMAIN headers) =>
    LET spf_result == lower(Text(headers["Received-SPF"]))
        result == lower(Chars(headers["Received-SPF"][1]))
    IN  /\ "SPF" \in DOMAIN auth_results.found
        /\ auth_results.found["SPF"] =
             IF Contains(spf_result, Chars("pass")) THEN "PASS"
             ELSE IF result = Chars("softfail") THEN "SOFTFAIL"
             ELSE IF result = Chars("fail") THEN "FAIL"
             ELSE "UNKNOWN"

====
